---- MODULE Spec2Model ----
(***************************************************************************)
(* Model of joku/cogs/events.py: the Events cog.                           *)
(*                                                                         *)
(* The cog's handlers are coroutines run by a single-threaded event loop.  *)
(* A handler runs without interruption up to an `await`, where it is       *)
(* suspended until the awaited call returns or raises.  Every action of    *)
(* this model is one such uninterrupted stretch of one handler invocation. *)
(* An exception that leaves a handler ends that invocation only.           *)
(***************************************************************************)
EXTENDS Integers, Sequences, FiniteSets, TLC

VARIABLES
    tasks,      \* the handler invocations made so far, in order of invocation
    events,     \* bot.manager.events: the Frequency Counter (kind -> count)
    log,        \* the store's "events" table: records in order of commit
    sent        \* texts handed to bot.send_message that reached a channel

vars == <<tasks, events, log, sent>>

----------------------------------------------------------------------------
(* Bounds *)

MaxTasks == 2

\* The most records of one kind in a log written by earlier runs.
MaxStored == 3

----------------------------------------------------------------------------
(* Values *)

\* Python's None (an absent "t", a miss of dict.get, "no subscription").
None == "<None>"

\* The operation codes of the frames of the feed; 0 is a dispatch.
Ops == {0, 7, 9, 10, 11}

\* The type tags of the frames of the feed: absent, empty, or a name.
Tags == {None, "", "PRESENCE_UPDATE", "HEATBEAT_ACK", "GUILD_CREATE", "GUILD_MEMBER_ADD"}

Frames == [t : Tags, op : Ops]

Servers == {1, 2, 3}

Members == {1}

Name(member) == "Ada"

ServerName(server) == IF server = 1 THEN "g1" ELSE IF server = 2 THEN "g2" ELSE "g3"

\* Mutant: the names of op-codes 9 and 10 are exchanged.
unknown_events_exchanged ==
    [op \in {7, 9, 10, 11} |->
        CASE op = 11 -> "HEARTBEAT_ACK"
          [] op = 10 -> "INVALIDATE_SESSION"
          [] op = 9  -> "READY"
          [] op = 7  -> "RECONNECT"]

unknown_events ==
    [op \in {7, 9, 10, 11} |->
        CASE op = 11 -> "HEARTBEAT_ACK"
          [] op = 10 -> "READY"
          [] op = 9  -> "INVALIDATE_SESSION"
          [] op = 7  -> "RECONNECT"]

\* dict.get: the value under the key, None when the key is missing.
Get(dict, key) == IF key \in DOMAIN dict THEN dict[key] ELSE None

\* Python truthiness of a string-or-None value.
Truthy(v) == v # None /\ v # ""

----------------------------------------------------------------------------
(* Classification, lines 83-87 *)

\* Mutant: the op-code table is consulted before the type tag.
ClassifyOpFirst(data) ==
    IF data.op \in DOMAIN unknown_events THEN unknown_events[data.op]
    ELSE IF Truthy(data.t) THEN data.t ELSE None

Classify(data) ==
    IF Truthy(data.t) THEN data.t
    ELSE Get(unknown_events, data.op)

\* The "Caught None-event" warning is emitted when no kind was found.
Warns(data) == ~Truthy(Classify(data))

----------------------------------------------------------------------------
(* The Frequency Counter: a collections.Counter, a missing key counts 0 *)

Count(counter, kind) == IF kind \in DOMAIN counter THEN counter[kind] ELSE 0

\* Mutant: the counter is replaced by one that holds the incremented kind
\* only.
IncrementAlone(counter, kind) == [k \in {kind} |-> Count(counter, k) + 1]

Increment(counter, kind) ==
    [k \in DOMAIN counter \cup {kind} |-> Count(counter, k) + (IF k = kind THEN 1 ELSE 0)]

----------------------------------------------------------------------------
(* The handler invocations *)

NoFrame == [t |-> None, op |-> 0]

\* Of a record only the fields the properties read are kept; a field the
\* record does not have is 0.
NoRecord == [t |-> None, server_id |-> 0, member_id |-> 0, seq |-> 0]

\* get_event_message found no subscription (Python: a falsy result).
NoConfig == [found |-> FALSE, channel |-> 0, event_msg |-> <<>>]

NewTask(handler, data, server, member) ==
    [handler  |-> handler,   \* which handler was invoked
     data     |-> data,      \* on_socket_response: the frame
     server   |-> server,    \* lifecycle handlers: the guild
     member   |-> member,    \* lifecycle handlers: the member
     pc       |-> "start",   \* "log", "resolve", "send": suspended in that await
                             \* "done": returned; "raised": left by an exception
     event    |-> None,      \* on_socket_response: the local `event`
     warned   |-> FALSE,     \* the None-event warning was emitted
     err      |-> None,      \* the exception that ended the invocation
     appends  |-> 0,         \* calls of rdblog.log issued
     resolves |-> 0,         \* calls of get_event_message issued
     sends    |-> 0,         \* calls of send_message issued
     counted  |-> None,      \* key of the counter incremented by this invocation
     counts   |-> 0,         \* increments of the counter made by this invocation
     obb      |-> NoRecord,  \* the record handed to rdblog.log
     i        |-> NoConfig,  \* result of get_event_message
     msg      |-> <<>>,      \* the formatted text
     q        |-> <<>>,      \* all: the result of the group/count query
     at       |-> 0,         \* all: the length of the log the query has read
     table    |-> <<>>,      \* events, all: the rows handed to tabulate
     shown    |-> 0]         \* seq: the sequence number read

Ids == 1..Len(tasks)

\* bot.connection.sequence: the number of dispatch frames (op 0) received by
\* the invocations made so far.
sequence ==
    Cardinality({id \in Ids : tasks[id].handler = "on_socket_response"
                                /\ tasks[id].data.op = 0})

Update(id, new) == tasks' = [tasks EXCEPT ![id] = new]


Terminated(task) == task.pc \in {"done", "raised"}

Raise(task, exc) == [task EXCEPT !.pc = "raised", !.err = exc]

\* `await self.bot.rdblog.log(record)`: the call is issued and the handler
\* is suspended until the store answers.
AwaitLog(task, record) ==
    [task EXCEPT !.pc = "log", !.obb = record, !.appends = @ + 1]

\* A record as it is committed by the store; inv names the invocation that
\* wrote it.
Committed(id) ==
    [t |-> tasks[id].obb.t, server_id |-> tasks[id].obb.server_id,
     member_id |-> tasks[id].obb.member_id, seq |-> tasks[id].obb.seq, inv |-> id]

\* `self.bot.manager.events[event] += 1`, line 108.
Counted(task) ==
    [task EXCEPT !.pc = "done", !.counted = task.event, !.counts = @ + 1]

----------------------------------------------------------------------------
(* on_socket_response, lines 79-108 *)

\* Mutant: every frame is handed to the Event Logger before it is counted.
on_socket_response_logs_all(data) ==
    /\ Len(tasks) < MaxTasks
    /\ LET event == Classify(data)
           task  == [NewTask("on_socket_response", data, 0, 0)
                        EXCEPT !.event = event, !.warned = Warns(data)]
       IN  tasks' = Append(tasks, AwaitLog(task,
                        [t |-> event, server_id |-> 0, member_id |-> 0, seq |-> 0]))
    /\ UNCHANGED <<events, log, sent>>

\* Mutant: the op-code is looked up with unknown_events[...], and a frame
\* without type tag and with an op-code outside the table raises KeyError.
on_socket_response_strict(data) ==
    /\ Len(tasks) < MaxTasks
    /\ LET event == Classify(data)
           task  == [NewTask("on_socket_response", data, 0, 0) EXCEPT !.event = event]
       IN  IF Truthy(event)
           THEN /\ tasks' = Append(tasks, Counted(task))
                /\ events' = Increment(events, event)
           ELSE /\ tasks' = Append(tasks, Raise(task, "KeyError"))
                /\ UNCHANGED events
    /\ UNCHANGED <<log, sent>>

\* From the call to the first await, or to the return when nothing is logged.
on_socket_response(data) ==
    /\ Len(tasks) < MaxTasks
    /\ LET id    == Len(tasks) + 1
           event == Classify(data)
           task  == [NewTask("on_socket_response", data, 0, 0)
                        EXCEPT !.event = event, !.warned = Warns(data)]
       IN  IF event = "PRESENCE_UPDATE"
           THEN /\ tasks' = Append(tasks, AwaitLog(task,
                                [t |-> "PRESENCE_UPDATE", server_id |-> 0, member_id |-> 0,
                                 seq |-> 0]))
                /\ UNCHANGED events
           ELSE IF event = "HEATBEAT_ACK"
           THEN /\ tasks' = Append(tasks, AwaitLog(task,
                                [t |-> "HEARTBEAT_ACK", server_id |-> 0, member_id |-> 0,
                                 seq |-> sequence + (IF data.op = 0 THEN 1 ELSE 0)]))
                /\ UNCHANGED events
           ELSE /\ tasks' = Append(tasks, Counted(task))
                /\ events' = Increment(events, event)
    /\ UNCHANGED <<log, sent>>

\* Mutant: the handler returns after the append without counting the frame.
SocketLoggedUncounted(id) ==
    /\ tasks[id].handler = "on_socket_response"
    /\ tasks[id].pc = "log"
    /\ log' = Append(log, Committed(id))
    /\ Update(id, [tasks[id] EXCEPT !.pc = "done"])
    /\ UNCHANGED <<events, sent>>

\* rdblog.log returned: the record is in the log, the counter is incremented
\* and the handler returns.
SocketLogged(id) ==
    /\ tasks[id].handler = "on_socket_response"
    /\ tasks[id].pc = "log"
    /\ log' = Append(log, Committed(id))
    /\ Update(id, Counted(tasks[id]))
    /\ events' = Increment(events, tasks[id].event)
    /\ UNCHANGED sent

\* rdblog.log raised StoreError: the exception leaves the handler.
SocketLogFailed(id) ==
    /\ tasks[id].handler = "on_socket_response"
    /\ tasks[id].pc = "log"
    /\ Update(id, Raise(tasks[id], "StoreError"))
    /\ UNCHANGED <<events, log, sent>>

----------------------------------------------------------------------------
(* Notification templates and their substitution *)

\* A template is a sequence of tokens: literal text, or a replacement field
\* such as {member.name}, written here by the name of the keyword it reads.
Lit(s) == [ph |-> FALSE, s |-> s]
Ph(key) == [ph |-> TRUE, s |-> key]

\* The keywords every lifecycle handler passes to str.format.
Fields(member, server, channel) ==
    [key \in {"member", "server", "channel"} |->
        CASE key = "member"  -> Name(member)
          [] key = "server"  -> ServerName(server)
          [] key = "channel" -> "channel"]

\* Mutant: a keyword that was not passed is rendered as a blank.
FormatBlank(event_msg, fields) ==
    [ok |-> TRUE,
     text |-> [n \in 1..Len(event_msg) |->
                  IF ~event_msg[n].ph THEN event_msg[n].s
                  ELSE IF event_msg[n].s \in DOMAIN fields THEN fields[event_msg[n].s]
                  ELSE ""]]

\* str.format(**fields): the text with every field replaced, or KeyError
\* when the template names a keyword that was not passed.
Format(event_msg, fields) ==
    IF \E n \in 1..Len(event_msg) : event_msg[n].ph /\ event_msg[n].s \notin DOMAIN fields
    THEN [ok |-> FALSE, text |-> <<>>]
    ELSE [ok |-> TRUE,
          text |-> [n \in 1..Len(event_msg) |->
                       IF event_msg[n].ph THEN fields[event_msg[n].s] ELSE event_msg[n].s]]

----------------------------------------------------------------------------
(* The resolver, bot.rethinkdb.get_event_message *)

Categories == {"joins", "leaves", "bans", "unbans"}

\* The subscriptions of the guilds: guild 1 is subscribed to every category
\* without a template of its own, guild 2 to none, guild 3 to every category
\* with a template that names a keyword the handlers do not pass.
Channel(server, category) ==
    server * 10 + (CASE category = "joins" -> 1 [] category = "leaves" -> 2
                     [] category = "bans" -> 3 [] category = "unbans" -> 4)

NotificationConfig ==
    [key \in {1, 3} \X Categories |->
        [channel  |-> Channel(key[1], key[2]),
         template |-> IF key[1] = 3 THEN <<Lit("Hi "), Ph("user")>> ELSE <<>>]]

\* None without a subscription, else the channel and the guild's template,
\* the default when the guild has none.
get_event_message(server, category, default) ==
    IF <<server, category>> \notin DOMAIN NotificationConfig THEN NoConfig
    ELSE LET c == NotificationConfig[<<server, category>>]
         IN  [found |-> TRUE, channel |-> c.channel,
              event_msg |-> IF c.template = <<>> THEN default ELSE c.template]

----------------------------------------------------------------------------
(* The lifecycle handlers, lines 145-243 *)

Lifecycle == {"on_member_ban", "on_member_unban", "on_member_join", "on_member_remove"}

\* The "t" each handler logs.
Kind(handler) ==
    CASE handler = "on_member_ban"    -> "GUILD_BAN_ADD"
      [] handler = "on_member_unban"  -> "GUILD_BAN_REMOVE"
      [] handler = "on_member_join"   -> "GUILD_MEMBER_ADD"
      [] handler = "on_member_remove" -> "GUILD_MEMBER_REMOVE"

\* Mutant: on_member_unban resolves the category of on_member_ban.
CategoryCopied(handler) ==
    CASE handler = "on_member_ban"    -> "bans"
      [] handler = "on_member_unban"  -> "bans"
      [] handler = "on_member_join"   -> "joins"
      [] handler = "on_member_remove" -> "leaves"

\* The category each handler resolves.
Category(handler) ==
    CASE handler = "on_member_ban"    -> "bans"
      [] handler = "on_member_unban"  -> "unbans"
      [] handler = "on_member_join"   -> "joins"
      [] handler = "on_member_remove" -> "leaves"

\* The default template each handler passes to the resolver (the code marks
\* around the name in the ban texts are left out).
Default(handler) ==
    CASE handler = "on_member_ban"    -> <<Ph("member"), Lit(" got **bent**")>>
      [] handler = "on_member_unban"  -> <<Ph("member"), Lit(" got **unbent**")>>
      [] handler = "on_member_join"   -> <<Lit("Welcome "), Ph("member"), Lit("!")>>
      [] handler = "on_member_remove" -> <<Lit("Bye "), Ph("member"), Lit("!")>>

\* From the call to `await self.bot.rdblog.log(obb)`.
Invoke(handler, server, member) ==
    /\ Len(tasks) < MaxTasks
    /\ tasks' = Append(tasks, AwaitLog(NewTask(handler, NoFrame, server, member),
                    [t |-> Kind(handler), server_id |-> server, member_id |-> member,
                     seq |-> 0]))
    /\ UNCHANGED <<events, log, sent>>

on_member_ban(member, server) == Invoke("on_member_ban", server, member)

on_member_unban(server, member) == Invoke("on_member_unban", server, member)

on_member_join(member, server) == Invoke("on_member_join", server, member)

on_member_remove(member, server) == Invoke("on_member_remove", server, member)

\* Mutant: the handler goes on although nothing was written to the log.
LifecycleNotLogged(id) ==
    /\ tasks[id].handler \in Lifecycle
    /\ tasks[id].pc = "log"
    /\ Update(id, [tasks[id] EXCEPT !.pc = "resolve", !.resolves = @ + 1])
    /\ UNCHANGED <<events, log, sent>>

\* rdblog.log returned: the record is in the log; the handler goes on to
\* `await self.bot.rethinkdb.get_event_message(...)`.
LifecycleLogged(id) ==
    /\ tasks[id].handler \in Lifecycle
    /\ tasks[id].pc = "log"
    /\ log' = Append(log, Committed(id))
    /\ Update(id, [tasks[id] EXCEPT !.pc = "resolve", !.resolves = @ + 1])
    /\ UNCHANGED <<events, sent>>

\* rdblog.log raised StoreError: the exception leaves the handler.
LifecycleLogFailed(id) ==
    /\ tasks[id].handler \in Lifecycle
    /\ tasks[id].pc = "log"
    /\ Update(id, Raise(tasks[id], "StoreError"))
    /\ UNCHANGED <<events, log, sent>>

\* Mutant: the `if not i: return` guard is missing, the default template is
\* sent whatever the resolver returned.
LifecycleResolvedUnguarded(id) ==
    /\ tasks[id].handler \in Lifecycle
    /\ tasks[id].pc = "resolve"
    /\ LET task == tasks[id]
           i    == get_event_message(task.server, Category(task.handler), Default(task.handler))
           msg  == Format(Default(task.handler), Fields(task.member, task.server, i.channel))
       IN  Update(id, [task EXCEPT !.pc = "send", !.i = i, !.msg = msg.text,
                                   !.sends = @ + 1])
    /\ UNCHANGED <<events, log, sent>>

\* get_event_message returned i: return when there is no subscription, else
\* format the template and go on to `await self.bot.send_message(...)`.
LifecycleResolved(id) ==
    /\ tasks[id].handler \in Lifecycle
    /\ tasks[id].pc = "resolve"
    /\ LET task == tasks[id]
           i    == get_event_message(task.server, Category(task.handler), Default(task.handler))
           msg  == Format(i.event_msg, Fields(task.member, task.server, i.channel))
       IN  IF ~i.found
           THEN Update(id, [task EXCEPT !.pc = "done", !.i = i])
           ELSE IF ~msg.ok
           THEN Update(id, [Raise(task, "KeyError") EXCEPT !.i = i])
           ELSE Update(id, [task EXCEPT !.pc = "send", !.i = i, !.msg = msg.text,
                                        !.sends = @ + 1])
    /\ UNCHANGED <<events, log, sent>>

\* send_message returned: the text is in the channel and the handler returns.
LifecycleSent(id) ==
    /\ tasks[id].handler \in Lifecycle
    /\ tasks[id].pc = "send"
    /\ sent' = Append(sent, [channel |-> tasks[id].i.channel, text |-> tasks[id].msg,
                             inv |-> id])
    /\ Update(id, [tasks[id] EXCEPT !.pc = "done"])
    /\ UNCHANGED <<events, log>>

\* Mutant: a failed send is issued again.
LifecycleSendRetried(id) ==
    /\ tasks[id].handler \in Lifecycle
    /\ tasks[id].pc = "send"
    /\ tasks[id].sends < 3
    /\ Update(id, [tasks[id] EXCEPT !.sends = @ + 1])
    /\ UNCHANGED <<events, log, sent>>

\* send_message raised SendError: the exception leaves the handler.
LifecycleSendFailed(id) ==
    /\ tasks[id].handler \in Lifecycle
    /\ tasks[id].pc = "send"
    /\ Update(id, Raise(tasks[id], "SendError"))
    /\ UNCHANGED <<events, log, sent>>

----------------------------------------------------------------------------
(* The handlers that only log, lines 110-143 *)

Plain == {"on_message", "on_typing", "on_message_delete", "on_message_edit"}

\* The "t" of the record each of them logs.
PlainKind(handler) ==
    CASE handler = "on_message"        -> "MESSAGE_CREATE"
      [] handler = "on_typing"         -> "TYPING_START"
      [] handler = "on_message_delete" -> "MESSAGE_DELETE"
      [] handler = "on_message_edit"   -> "MESSAGE_UPDATE"

\* From the call to the only await of the handler, the call of the logger.
InvokePlain(handler, server, member) ==
    /\ Len(tasks) < MaxTasks
    /\ tasks' = Append(tasks, AwaitLog(NewTask(handler, NoFrame, server, member),
                    [t |-> PlainKind(handler), server_id |-> server, member_id |-> member,
                     seq |-> 0]))
    /\ UNCHANGED <<events, log, sent>>

\* rdblog.log_message(message) is taken to log one record of the message.
on_message(message) == InvokePlain("on_message", message.server, message.author)

\* The record has no server_id.
on_typing(channel, user) == InvokePlain("on_typing", 0, user)

on_message_delete(message) ==
    InvokePlain("on_message_delete", message.server, message.author)

on_message_edit(old, message) ==
    InvokePlain("on_message_edit", message.server, message.author)

Messages == [server : {1}, author : Members]

\* Mutant: the record is written twice.
PlainLoggedTwice(id) ==
    /\ tasks[id].handler \in Plain
    /\ tasks[id].pc = "log"
    /\ log' = Append(Append(log, Committed(id)), Committed(id))
    /\ Update(id, [tasks[id] EXCEPT !.pc = "done"])
    /\ UNCHANGED <<events, sent>>

\* The logger returned: the record is in the log and the handler returns.
PlainLogged(id) ==
    /\ tasks[id].handler \in Plain
    /\ tasks[id].pc = "log"
    /\ log' = Append(log, Committed(id))
    /\ Update(id, [tasks[id] EXCEPT !.pc = "done"])
    /\ UNCHANGED <<events, sent>>

\* The logger raised StoreError: the exception leaves the handler.
PlainLogFailed(id) ==
    /\ tasks[id].handler \in Plain
    /\ tasks[id].pc = "log"
    /\ Update(id, Raise(tasks[id], "StoreError"))
    /\ UNCHANGED <<events, log, sent>>

----------------------------------------------------------------------------
(* The commands, lines 33-77 *)

\* The items of a mapping as a sequence of <<key, value>> pairs, in the
\* order in which the mapping is iterated: some fixed order.
RECURSIVE Listed(_, _)
Listed(mapping, keys) ==
    IF keys = {} THEN <<>>
    ELSE LET key == CHOOSE k \in keys : TRUE
         IN  <<<<key, mapping[key]>>>> \o Listed(mapping, keys \ {key})

Items(mapping) == Listed(mapping, DOMAIN mapping)

\* sorted(l, key=lambda x: x[1]): ascending by count, equal counts keep
\* their order.
RECURSIVE Sorted(_)
Sorted(l) ==
    IF l = <<>> THEN <<>>
    ELSE LET rest == Sorted(SubSeq(l, 1, Len(l) - 1))
             x    == l[Len(l)]
             k    == Cardinality({n \in 1..Len(rest) : rest[n][2] <= x[2]})
         IN  SubSeq(rest, 1, k) \o <<x>> \o SubSeq(rest, k + 1, Len(rest))

\* Mutant: the sorted list is not reversed.
NotReversed(l) == l

Reversed(l) == [n \in 1..Len(l) |-> l[Len(l) + 1 - n]]

\* Counter.most_common(n): the n first items in descending order of count,
\* equal counts keep their order.
RECURSIVE SortedDescending(_)
SortedDescending(l) ==
    IF l = <<>> THEN <<>>
    ELSE LET rest == SortedDescending(SubSeq(l, 1, Len(l) - 1))
             x    == l[Len(l)]
             k    == Cardinality({n \in 1..Len(rest) : rest[n][2] >= x[2]})
         IN  SubSeq(rest, 1, k) \o <<x>> \o SubSeq(rest, k + 1, Len(rest))

\* Mutant: the items are cut to n without being sorted.
most_common_unsorted(counter, n) ==
    LET l == Items(counter)
    IN  SubSeq(l, 1, IF n < Len(l) THEN n ELSE Len(l))

most_common(counter, n) ==
    LET l == SortedDescending(Items(counter))
    IN  SubSeq(l, 1, IF n < Len(l) THEN n ELSE Len(l))

\* The group/count aggregation of the `all` command, lines 54-57.
GroupCount(table) ==
    [kind \in {table[n].t : n \in 1..Len(table)} |->
        Cardinality({n \in 1..Len(table) : table[n].t = kind})]

Commands == {"events", "all", "seq"}

\* `events`: the ten most frequent kinds are read and tabulated, then
\* `await ctx.bot.say(...)`.
events_command ==
    /\ Len(tasks) < MaxTasks
    /\ tasks' = Append(tasks, [NewTask("events", NoFrame, 0, 0)
                    EXCEPT !.pc = "say", !.table = most_common(events, 10)])
    /\ UNCHANGED <<events, log, sent>>

\* `events all`: up to `await ctx.bot.say(":hourglass: Loading events...")`.
all ==
    /\ Len(tasks) < MaxTasks
    /\ tasks' = Append(tasks, [NewTask("all", NoFrame, 0, 0) EXCEPT !.pc = "say"])
    /\ UNCHANGED <<events, log, sent>>

\* `events seq`: the sequence number is read, then `await ctx.bot.say(...)`.
seq ==
    /\ Len(tasks) < MaxTasks
    /\ tasks' = Append(tasks, [NewTask("seq", NoFrame, 0, 0)
                    EXCEPT !.pc = "say", !.shown = sequence])
    /\ UNCHANGED <<events, log, sent>>

\* say returned: `events` and `seq` return, `all` goes on to the query.
CommandSaid(id) ==
    /\ tasks[id].handler \in Commands
    /\ tasks[id].pc = "say"
    /\ Update(id, [tasks[id] EXCEPT !.pc = IF tasks[id].handler = "all" THEN "query"
                                           ELSE "done"])
    /\ UNCHANGED <<events, log, sent>>

\* say raised SendError: the exception leaves the command.
CommandSayFailed(id) ==
    /\ tasks[id].handler \in Commands
    /\ tasks[id].pc = "say"
    /\ Update(id, Raise(tasks[id], "SendError"))
    /\ UNCHANGED <<events, log, sent>>

\* Mutant: the aggregation is written back to the Frequency Counter.
AllQueriedRefreshing(id) ==
    /\ tasks[id].handler = "all"
    /\ tasks[id].pc = "query"
    /\ LET q == GroupCount(log)
       IN  /\ Update(id, [tasks[id] EXCEPT !.pc = "edit", !.q = q, !.at = Len(log),
                                           !.table = Reversed(Sorted(Items(q)))])
           /\ events' = q
    /\ UNCHANGED <<log, sent>>

\* The query returned q: its items are sorted by count, reversed and
\* tabulated, then `await ctx.bot.edit_message(...)`.
AllQueried(id) ==
    /\ tasks[id].handler = "all"
    /\ tasks[id].pc = "query"
    /\ LET q == GroupCount(log)
       IN  Update(id, [tasks[id] EXCEPT !.pc = "edit", !.q = q, !.at = Len(log),
                                       !.table = Reversed(Sorted(Items(q)))])
    /\ UNCHANGED <<events, log, sent>>

\* The query raised StoreError: the exception leaves the command.
AllQueryFailed(id) ==
    /\ tasks[id].handler = "all"
    /\ tasks[id].pc = "query"
    /\ Update(id, Raise(tasks[id], "StoreError"))
    /\ UNCHANGED <<events, log, sent>>

\* edit_message returned, or raised SendError.
AllEdited(id) ==
    /\ tasks[id].handler = "all"
    /\ tasks[id].pc = "edit"
    /\ \/ Update(id, [tasks[id] EXCEPT !.pc = "done"])
       \/ Update(id, Raise(tasks[id], "SendError"))
    /\ UNCHANGED <<events, log, sent>>

----------------------------------------------------------------------------
(* The specification *)

Init ==
    /\ tasks = <<>>
    /\ events = <<>>
    /\ log = <<>>
    /\ sent = <<>>

Next ==
    \/ \E data \in Frames : on_socket_response(data)
    \/ \E id \in Ids : SocketLogged(id)
    \/ \E id \in Ids : SocketLogFailed(id)
    \/ \E member \in Members, server \in Servers : on_member_ban(member, server)
    \/ \E member \in Members, server \in Servers : on_member_unban(server, member)
    \/ \E member \in Members, server \in Servers : on_member_join(member, server)
    \/ \E member \in Members, server \in Servers : on_member_remove(member, server)
    \/ \E id \in Ids : LifecycleLogged(id)
    \/ \E id \in Ids : LifecycleLogFailed(id)
    \/ \E id \in Ids : LifecycleResolved(id)
    \/ \E id \in Ids : LifecycleSent(id)
    \/ \E id \in Ids : LifecycleSendFailed(id)
    \/ \E message \in Messages : on_message(message)
    \/ \E user \in Members : on_typing(1, user)
    \/ \E message \in Messages : on_message_delete(message)
    \/ \E old \in Messages, message \in Messages : on_message_edit(old, message)
    \/ \E id \in Ids : PlainLogged(id)
    \/ \E id \in Ids : PlainLogFailed(id)
    \/ events_command
    \/ all
    \/ seq
    \/ \E id \in Ids : CommandSaid(id)
    \/ \E id \in Ids : CommandSayFailed(id)
    \/ \E id \in Ids : AllQueried(id)
    \/ \E id \in Ids : AllQueryFailed(id)
    \/ \E id \in Ids : AllEdited(id)

Spec == Init /\ [][Next]_vars

----------------------------------------------------------------------------
(* The commands over a log and a counter that already have content *)

\* The log outlives the process: the records written by earlier runs.
StoredKinds == <<"PRESENCE_UPDATE", "TYPING_START", "MESSAGE_CREATE">>

Stored(kind) == [t |-> kind, server_id |-> 0, member_id |-> 0, seq |-> 0, inv |-> 0]

RECURSIVE Repeated(_, _)
Repeated(record, n) == IF n = 0 THEN <<>> ELSE <<record>> \o Repeated(record, n - 1)

\* A log with the given number of records of each stored kind.
StoredLog(a, b, c) ==
    Repeated(Stored(StoredKinds[1]), a) \o Repeated(Stored(StoredKinds[2]), b)
        \o Repeated(Stored(StoredKinds[3]), c)

StoredLogs == {StoredLog(a, b, c) : a \in 0..MaxStored, b \in 0..MaxStored, c \in 0..MaxStored}

\* The counter of a process that has run for a while: the first `size` kinds
\* of the list, with counts between 1 and 3 in one of three patterns.
CountedKinds ==
    <<"READY", "GUILD_CREATE", "PRESENCE_UPDATE", "TYPING_START", "MESSAGE_CREATE",
      "MESSAGE_UPDATE", "MESSAGE_DELETE", "GUILD_MEMBER_ADD", "GUILD_MEMBER_REMOVE",
      "GUILD_BAN_ADD", "GUILD_BAN_REMOVE", "HEARTBEAT_ACK">>

CounterOf(size, pattern) ==
    [kind \in {CountedKinds[n] : n \in 1..size} |->
        LET n == CHOOSE n \in 1..size : CountedKinds[n] = kind
        IN  1 + ((n * pattern) % 3)]

Counters == {CounterOf(size, pattern) : size \in {0, 3, 10, 11, 12}, pattern \in 1..3}

\* The frames received while the commands run.
ReportFrames == {[t |-> "PRESENCE_UPDATE", op |-> 0], [t |-> "GUILD_CREATE", op |-> 0]}

\* `all` on a log written by earlier runs, while frames are received.
InitStored ==
    /\ tasks = <<>>
    /\ events = <<>>
    /\ log \in StoredLogs
    /\ sent = <<>>

NextStored ==
    \/ all
    \/ \E id \in Ids : CommandSaid(id)
    \/ \E id \in Ids : CommandSayFailed(id)
    \/ \E id \in Ids : AllQueried(id)
    \/ \E id \in Ids : AllQueryFailed(id)
    \/ \E id \in Ids : AllEdited(id)
    \/ \E data \in ReportFrames : on_socket_response(data)
    \/ \E id \in Ids : SocketLogged(id)
    \/ \E id \in Ids : SocketLogFailed(id)

SpecStored == InitStored /\ [][NextStored]_vars

\* `events` and `seq` in a process that has counted for a while, while frames
\* are received.
InitCounted ==
    /\ tasks = <<>>
    /\ events \in Counters
    /\ log = <<>>
    /\ sent = <<>>

NextCounted ==
    \/ events_command
    \/ seq
    \/ \E id \in Ids : CommandSaid(id)
    \/ \E id \in Ids : CommandSayFailed(id)
    \/ \E data \in ReportFrames : on_socket_response(data)
    \/ \E id \in Ids : SocketLogged(id)
    \/ \E id \in Ids : SocketLogFailed(id)

SpecCounted == InitCounted /\ [][NextCounted]_vars

----------------------------------------------------------------------------
(* Vocabulary of the properties *)

Socket == {id \in Ids : tasks[id].handler = "on_socket_response"}

Life == {id \in Ids : tasks[id].handler \in Lifecycle}

AllTerminated == \A id \in Ids : Terminated(tasks[id])

NoAppendFailed == \A id \in Ids : tasks[id].err # "StoreError"

\* The records of the log written by an invocation.
RecordsOf(id) == {n \in 1..Len(log) : log[n].inv = id}

\* The texts that reached a channel from an invocation.
SendsOf(id) == {n \in 1..Len(sent) : sent[n].inv = id}

\* The kinds on_socket_response can count.
Kinds == {Classify(data) : data \in Frames}

\* The subscription of a lifecycle invocation's guild and category.
ConfigOf(id) ==
    get_event_message(tasks[id].server, Category(tasks[id].handler), Default(tasks[id].handler))

----------------------------------------------------------------------------
(* C1 - C3: the counter under interleaving, store failure and I/O *)

\* C1: once every invocation of on_socket_response has completed, the count
\* of each kind is the number of invocations made for frames of that kind:
\* no increment is lost.
C1_NoLostIncrement ==
    AllTerminated =>
        \A kind \in Kinds :
            Count(events, kind) = Cardinality({id \in Socket : tasks[id].event = kind})

\* C2: an invocation of on_socket_response whose log append failed with
\* StoreError has still incremented the count of its frame's kind by 1.
C2_CountedDespiteStoreError ==
    \A id \in Socket :
        tasks[id].err = "StoreError" =>
            /\ tasks[id].counts = 1
            /\ Count(events, tasks[id].event) >= 1

\* C3: whenever an invocation of on_socket_response has issued a log append,
\* it has already incremented the counter.
C3_CountedBeforeIO ==
    \A id \in Socket : tasks[id].appends > 0 => tasks[id].counts = 1

----------------------------------------------------------------------------
(* C4 - C5: what on_socket_response logs, and the log against the counter *)

\* The frames on_socket_response hands to the Event Logger.
Logs(kind) == kind \in {"PRESENCE_UPDATE", "HEATBEAT_ACK"}

----------------------------------------------------------------------------
(* C6 - C9: the lifecycle flows *)

\* C6: a lifecycle invocation for a guild and category without subscription
\* never invokes send_message, and when the resolver has returned none the
\* record of the event is in the log.
C6_NoConfigNoSend ==
    \A id \in Life :
        ~ConfigOf(id).found =>
            /\ tasks[id].sends = 0
            /\ SendsOf(id) = {}
            /\ (tasks[id].resolves > 0 /\ tasks[id].pc # "resolve") =>
                  /\ tasks[id].pc = "done"
                  /\ \E n \in RecordsOf(id) : log[n].t = Kind(tasks[id].handler)

C6_Witness ==
    /\ Len(tasks) = 2
    /\ tasks[1].handler = "on_member_join" /\ tasks[2].handler = "on_member_ban"
    /\ \A id \in Ids :
          /\ ~ConfigOf(id).found
          /\ tasks[id].pc = "done"
          /\ tasks[id].resolves = 1
          /\ RecordsOf(id) # {}

\* C7: a lifecycle invocation whose log append failed, for a guild and
\* category with a subscription, has still consulted the resolver and issued
\* the send.
C7_NotifiedDespiteStoreError ==
    \A id \in Life :
        (tasks[id].err = "StoreError" /\ ConfigOf(id).found) =>
            /\ tasks[id].resolves > 0
            /\ Format(ConfigOf(id).event_msg,
                      Fields(tasks[id].member, tasks[id].server, ConfigOf(id).channel)).ok
                  => tasks[id].sends > 0

\* The template resolved for the invocation names a keyword that is not
\* among member, server and channel.
MissingField(id) ==
    /\ tasks[id].handler \in Lifecycle
    /\ ConfigOf(id).found
    /\ \E n \in 1..Len(ConfigOf(id).event_msg) :
          /\ ConfigOf(id).event_msg[n].ph
          /\ ConfigOf(id).event_msg[n].s \notin {"member", "server", "channel"}

\* C8: a dispatch whose template names a missing field ends in a formatting
\* error and no text reaches a channel; the step that raises the error leaves
\* every other invocation as it was.
C8_MissingFieldNoText ==
    [][\A id \in 1..Len(tasks') :
          MissingField(id)' =>
              /\ tasks'[id].sends = 0
              /\ SendsOf(id)' = {}
              /\ tasks'[id].pc \in {"log", "resolve", "raised"}
              /\ (tasks'[id].pc = "raised" /\ tasks'[id].err # "StoreError") =>
                    tasks'[id].err = "KeyError"
              /\ (id \in Ids /\ tasks'[id].err = "KeyError" /\ tasks[id].err # "KeyError") =>
                    /\ \A other \in Ids \ {id} : tasks'[other] = tasks[other]
                    /\ UNCHANGED <<events, log, sent>>
      ]_vars

\* Two invocations in flight together (the second was logged first): the
\* first ended in the formatting error, the second completed its send.
C8_Witness ==
    /\ Len(tasks) = 2
    /\ MissingField(1) /\ tasks[1].err = "KeyError"
    /\ tasks[2].pc = "done" /\ SendsOf(2) # {}
    /\ Len(log) = 2 /\ log[1].inv = 2 /\ log[2].inv = 1
    /\ Len(sent) = 1 /\ sent[1].text = <<"Welcome ", "Ada", "!">>

\* C9: a lifecycle invocation issues at most one log append and at most one
\* send, and an invocation ended by a failure takes no further step.
C9_NoRetry ==
    [][\A id \in 1..Len(tasks') :
          tasks'[id].handler \in Lifecycle =>
              /\ tasks'[id].appends <= 1
              /\ tasks'[id].sends <= 1
              /\ Cardinality(RecordsOf(id)') <= 1
              /\ Cardinality(SendsOf(id)') <= 1
              /\ (id \in Ids /\ tasks[id].pc = "raised") => tasks'[id] = tasks[id]
      ]_vars

C9_Witness ==
    /\ Len(tasks) = 2
    /\ tasks[1].err = "SendError" /\ tasks[1].sends = 1 /\ SendsOf(1) = {}
    /\ tasks[2].handler \in Lifecycle
    /\ tasks[2].err = "StoreError" /\ tasks[2].appends = 1 /\ RecordsOf(2) = {}

----------------------------------------------------------------------------
(* C10: classification of tagged frames *)

\* C10: a frame with a non-empty type tag is classified as that tag whatever
\* its op-code, and is counted under that tag.
C10_TagIsKind ==
    \A id \in Socket :
        Truthy(tasks[id].data.t) =>
            /\ tasks[id].event = tasks[id].data.t
            /\ tasks[id].counts = 1 =>
                  /\ tasks[id].counted = tasks[id].data.t
                  /\ Count(events, tasks[id].data.t) >= 1

C10_Witness ==
    /\ Len(tasks) = 2
    /\ tasks[1].data = [t |-> "GUILD_CREATE", op |-> 11]
    /\ tasks[2].data = [t |-> "PRESENCE_UPDATE", op |-> 7]
    /\ events = [kind \in {"GUILD_CREATE", "PRESENCE_UPDATE"} |-> 1]

----------------------------------------------------------------------------
(* C11 - C12: classification of frames without type tag *)

\* C11: a frame with an absent or empty type tag is classified and counted
\* as RECONNECT, INVALIDATE_SESSION, READY or HEARTBEAT_ACK when its op-code
\* is 7, 9, 10 or 11, and as the one unknown kind (None) for any other
\* op-code.
C11_UntaggedKind ==
    \A id \in Socket :
        LET op   == tasks[id].data.op
            kind == IF op = 7 THEN "RECONNECT"
                    ELSE IF op = 9 THEN "INVALIDATE_SESSION"
                    ELSE IF op = 10 THEN "READY"
                    ELSE IF op = 11 THEN "HEARTBEAT_ACK"
                    ELSE None
        IN  tasks[id].data.t \in {None, ""} =>
                /\ tasks[id].event = kind
                /\ tasks[id].counts = 1 => tasks[id].counted = kind /\ Count(events, kind) >= 1

C11_Witness ==
    /\ Len(tasks) = 2
    /\ tasks[1].data = [t |-> "", op |-> 9] /\ tasks[2].data = [t |-> None, op |-> 0]
    /\ events = [kind \in {"INVALIDATE_SESSION", None} |-> 1]

\* C12: handling a frame without type tag and with an op-code outside the
\* table emits the diagnostic, raises nothing, returns, and raises the count
\* of the unknown kind (None) by exactly 1.
C12_UnknownCounted ==
    [][\A id \in 1..Len(tasks') :
          (/\ tasks'[id].handler = "on_socket_response"
           /\ tasks'[id].data.t \in {None, ""}
           /\ tasks'[id].data.op \notin {7, 9, 10, 11}) =>
              /\ tasks'[id].warned
              /\ tasks'[id].pc = "done" /\ tasks'[id].err = None
              /\ tasks'[id].counts = 1 /\ tasks'[id].counted = None
              /\ id \notin Ids => Count(events', None) = Count(events, None) + 1
      ]_vars

C12_Witness ==
    /\ Len(tasks) = 2
    /\ \A id \in Ids : tasks[id].data = [t |-> None, op |-> 0] /\ tasks[id].warned
    /\ events = [kind \in {None} |-> 2]

----------------------------------------------------------------------------
(* C13 - C15: the reports *)

\* The invocations of `all` whose query has returned and was tabulated.
Queried == {id \in Ids : tasks[id].handler = "all" /\ tasks[id].pc \in {"edit", "done"}}

\* The log as the query of an invocation of `all` has read it.
Read(id) == SubSeq(log, 1, tasks[id].at)

\* C13: the aggregation maps exactly the kinds that occur in the log it read
\* to their numbers of records, the rows presented are these entries in
\* non-increasing order of count, and on the empty log the table is empty.
C13_Aggregation ==
    \A id \in Queried :
        LET q    == tasks[id].q
            l    == tasks[id].table
            read == Read(id)
        IN  /\ \A n \in 1..Len(read) : read[n].t \in DOMAIN q
            /\ \A kind \in DOMAIN q :
                  /\ q[kind] >= 1
                  /\ q[kind] = Cardinality({n \in 1..Len(read) : read[n].t = kind})
                  /\ \E n \in 1..Len(l) : l[n] = <<kind, q[kind]>>
            /\ Len(l) = Cardinality(DOMAIN q)
            /\ \A n \in 1..(Len(l) - 1) : l[n][2] >= l[n + 1][2]
            /\ read = <<>> => l = <<>>

C13_Witness ==
    \E id \in Queried :
        /\ Len(tasks[id].table) = 3
        /\ tasks[id].table[1] = <<"MESSAGE_CREATE", 3>>
        /\ tasks[id].table[2] = <<"PRESENCE_UPDATE", 2>>
        /\ tasks[id].table[3] = <<"TYPING_START", 1>>

\* The aggregation of an empty log: an empty table, no error.
C13_WitnessEmpty ==
    \E id \in Queried : tasks[id].at = 0 /\ tasks[id].table = <<>> /\ tasks[id].pc = "done"

\* A step of an invocation of the given command: its call or a later stretch.
StepOf(command) ==
    \/ Len(tasks') > Len(tasks) /\ tasks'[Len(tasks')].handler = command
    \/ \E id \in Ids : tasks[id].handler = command /\ tasks'[id] # tasks[id]

TopSizes == 0..12

\* C15 for one counter and one n: at most n pairs (as many as there are
\* kinds, if fewer), of distinct kinds with their current counts, in
\* non-increasing order, and no kind left out counts more than one included.
IsTopOf(top, counter, n) ==
    /\ Len(top) <= n
    /\ Len(top) = (IF n < Cardinality(DOMAIN counter) THEN n ELSE Cardinality(DOMAIN counter))
    /\ \A a \in 1..Len(top) :
          /\ top[a][1] \in DOMAIN counter
          /\ top[a][2] = counter[top[a][1]]
          /\ \A b \in 1..Len(top) : top[a][1] = top[b][1] => a = b
          /\ a < Len(top) => top[a][2] >= top[a + 1][2]
          /\ \A kind \in DOMAIN counter \ {top[b][1] : b \in 1..Len(top)} :
                counter[kind] <= top[a][2]

\* C15: topK(n) of every counter state and every n is such a sequence, the
\* rows of `events` are the ten top kinds of the counter it has read, and no
\* step of `events` changes the counter.
C15_TopK ==
    /\ [](\A n \in TopSizes : IsTopOf(most_common(events, n), events, n))
    /\ [][StepOf("events") =>
            /\ UNCHANGED events
            /\ Len(tasks') > Len(tasks) =>
                  IsTopOf(tasks'[Len(tasks')].table, events, 10)
         ]_vars

\* Twelve kinds counted: `events` has shown ten, the two left out count 1.
C15_Witness ==
    \E id \in Ids :
        /\ tasks[id].handler = "events" /\ tasks[id].pc = "done"
        /\ Len(tasks[id].table) = 10
        /\ tasks[id].table[1][2] = 3 /\ tasks[id].table[10][2] = 1
        /\ Cardinality(DOMAIN events) >= 12

----------------------------------------------------------------------------
(* C16: the Frequency Counter only grows *)

\* C16: every count is a positive integer, a missing kind counting 0, and
\* every step keeps each kind in the counter and leaves its count unchanged
\* or raises it by exactly 1.
C16_CountsOnlyGrow ==
    [][/\ \A kind \in DOMAIN events' : events'[kind] \in Nat /\ events'[kind] >= 1
       /\ DOMAIN events \subseteq DOMAIN events'
       /\ \A kind \in DOMAIN events' :
             \/ Count(events', kind) = Count(events, kind)
             \/ Count(events', kind) = Count(events, kind) + 1
      ]_vars

C16_Witness ==
    /\ Count(events, "PRESENCE_UPDATE") = 1
    /\ Count(events, None) = 1
    /\ \E id \in Socket : tasks[id].data.t = "PRESENCE_UPDATE" /\ tasks[id].pc = "done"

----------------------------------------------------------------------------
(* C17 - C20: the lifecycle flows and the log *)

C18_HeartbeatAckLogged ==
    \A id \in Socket :
        (tasks[id].event = "HEARTBEAT_ACK" /\ tasks[id].pc = "done") =>
            \E n \in RecordsOf(id) : log[n].t = "HEARTBEAT_ACK" /\ log[n].seq <= sequence

\* C19: each lifecycle handler logs its own kind, and what it sends goes to
\* the channel subscribed for its guild and its own category.
C19_OwnKindAndCategory ==
    \A id \in Life :
        LET handler  == tasks[id].handler
            kind     == IF handler = "on_member_join" THEN "GUILD_MEMBER_ADD"
                        ELSE IF handler = "on_member_remove" THEN "GUILD_MEMBER_REMOVE"
                        ELSE IF handler = "on_member_ban" THEN "GUILD_BAN_ADD"
                        ELSE "GUILD_BAN_REMOVE"
            category == IF handler = "on_member_join" THEN "joins"
                        ELSE IF handler = "on_member_remove" THEN "leaves"
                        ELSE IF handler = "on_member_ban" THEN "bans"
                        ELSE "unbans"
            key      == <<tasks[id].server, category>>
        IN  /\ tasks[id].obb.t = kind
            /\ \A n \in RecordsOf(id) : log[n].t = kind /\ log[n].server_id = tasks[id].server
            /\ tasks[id].sends > 0 =>
                  /\ key \in DOMAIN NotificationConfig
                  /\ tasks[id].i.channel = NotificationConfig[key].channel
            /\ \A n \in SendsOf(id) :
                  /\ key \in DOMAIN NotificationConfig
                  /\ sent[n].channel = NotificationConfig[key].channel

C19_Witness ==
    /\ Len(tasks) = 2 /\ Len(sent) = 2 /\ Len(log) = 2
    /\ tasks[1].handler = "on_member_unban" /\ tasks[2].handler = "on_member_remove"
    /\ \A id \in Ids : tasks[id].server = 1 /\ tasks[id].pc = "done"
    /\ {sent[n].channel : n \in 1..2} = {Channel(1, "unbans"), Channel(1, "leaves")}
    /\ {log[n].t : n \in 1..2} = {"GUILD_BAN_REMOVE", "GUILD_MEMBER_REMOVE"}

\* C20: every step keeps the records of the log as they are, adds at most
\* one record, and no invocation has more than one record in the log.
C20_AppendOnly ==
    [][/\ Len(log') >= Len(log)
       /\ Len(log') <= Len(log) + 1
       /\ SubSeq(log', 1, Len(log)) = log
       /\ \A id \in 1..Len(tasks') :
             /\ Cardinality(RecordsOf(id)') <= 1
             /\ tasks'[id].appends <= 1
      ]_vars

C20_Witness ==
    /\ Len(tasks) = 2 /\ Len(log) = 2
    /\ tasks[1].handler = "on_message_edit" /\ tasks[2].handler = "on_typing"
    /\ log[1].inv = 2 /\ log[1].t = "TYPING_START"
    /\ log[2].inv = 1 /\ log[2].t = "MESSAGE_UPDATE"

====
